---- MODULE Spec2Model ----
(***************************************************************************)
(* Model of .github/scripts/send-reminders.js: the date helpers, the two   *)
(* alert builders, the formatter and the two orchestrators (main) that the *)
(* file holds: the broadcast one (lines 105-167) and the per-subscriber,   *)
(* ownership-scoped one (lines 277-336).                                   *)
(*                                                                         *)
(* Strings that the code only copies are TLA+ strings.  Strings the code   *)
(* computes on are modelled by what the computation sees: an email is the  *)
(* sequence of its characters (toLowerCase maps them), a date string is    *)
(* the sequence of its numeric fields (split('-').map(Number)), a label    *)
(* built by a template literal is the sequence of its pieces.              *)
(* Timestamps are counted in hours instead of milliseconds.                *)
(***************************************************************************)
EXTENDS Integers, Sequences, FiniteSets, TLC

VARIABLES
    today,        \* the local calendar day of the run: [y, m, d]
    tz,           \* the time zone of the host: "UTC" or "DST" (summer time)
    cfgDoc,       \* store: config/emailConfig, or Absent
    wivesDocs,    \* store: the wives collection
    subsDocs,     \* store: the subscribers collection
    pc,           \* position of main
    people,       \* main: people
    subscribers,  \* main: subscribers
    idx,          \* main: position of the for-of loop over subscribers
    alerts,       \* main: alerts
    alertText,    \* main: alertText
    ok,           \* main: ok
    fail,         \* main: fail
    skipped,      \* main: skipped
    calls,        \* the POSTs received by the email provider, in order
    clock,        \* milliseconds spent so far in the pacing timer
    exitCode,     \* exit status the process ends with once pc = "done"
    fatal,        \* the catch handler of main() has run
    probe         \* last direct call of a date helper (date specification)

vars == <<today, tz, cfgDoc, wivesDocs, subsDocs, pc, people, subscribers, idx,
          alerts, alertText, ok, fail, skipped, calls, clock, exitCode, fatal,
          probe>>

----------------------------------------------------------------------------
\* Bounds of the model

FirstYear == 2027
NumYears == 2
MaxPeople == 2
MaxSubs == 3

----------------------------------------------------------------------------
\* The calendar behind JavaScript's Date

IsLeap(y) == (y % 4 = 0) /\ ((y % 100 # 0) \/ (y % 400 = 0))

MonthLen(y, m) ==
    IF m = 2 THEN (IF IsLeap(y) THEN 29 ELSE 28)
    ELSE IF m \in {4, 6, 9, 11} THEN 30 ELSE 31

\* days of a common year before each month
CumDays == <<0, 31, 59, 90, 120, 151, 181, 212, 243, 273, 304, 334>>

DaysBeforeMonth(y, m) == CumDays[m] + (IF m > 2 /\ IsLeap(y) THEN 1 ELSE 0)

DaysBeforeYear(y) ==
    365 * (y - 1) + ((y - 1) \div 4) - ((y - 1) \div 100) + ((y - 1) \div 400)

\* new Date(y, month - 1, day) as a day number; a day past the end of the
\* month rolls over into the following month, as Date normalises it.
DayNumber(y, month, day) == DaysBeforeYear(y) + DaysBeforeMonth(y, month) + day - 1

\* 86400000 ms, in hours
DayLen == 24

\* In the zone with summer time, the clocks are one hour ahead from March 14
\* to November 7, so local midnight is one hour earlier in absolute time.
InSummerTime(y, n) ==
    /\ tz = "DST"
    /\ n >= DayNumber(y, 3, 14)
    /\ n < DayNumber(y, 11, 7)

\* The time value of new Date(y, month - 1, day): local midnight of that day.
NewDate(y, month, day) ==
    LET n == DayNumber(y, month, day)
    IN  DayLen * n - (IF InSummerTime(y, n) THEN 1 ELSE 0)

todayMidnight == NewDate(today.y, today.m, today.d)

\* Math.round(x / 86400000): the nearest integer, halves rounded up
RoundDays(x) == (2 * x + DayLen) \div (2 * DayLen)

\* faulty variant: the roll-over to next year is lost
daysUntilFixed_NoRoll(month, day) ==
    RoundDays(NewDate(today.y, month, day) - todayMidnight)

daysUntilFixed(month, day) ==
    LET t == todayMidnight
        d0 == NewDate(today.y, month, day)
        d == IF d0 < t THEN NewDate(today.y + 1, month, day) ELSE d0
    IN  RoundDays(d - t)

\* parts = dateStr.split('-').map(Number)
daysUntil(parts) ==
    LET t == todayMidnight
        m == IF Len(parts) = 3 THEN parts[2] ELSE parts[1]
        d == IF Len(parts) = 3 THEN parts[3] ELSE parts[2]
        dt0 == NewDate(today.y, m, d)
        dt == IF dt0 < t THEN NewDate(today.y + 1, m, d) ELSE dt0
    IN  RoundDays(dt - t)

----------------------------------------------------------------------------
\* The alert builders

GLOBAL_DATES == <<
    [name |-> "Valentine's Day",           month |-> 2,  day |-> 14],
    [name |-> "International Women's Day", month |-> 3,  day |-> 8],
    [name |-> "Mother's Day",              month |-> 5,  day |-> 11],
    [name |-> "Vietnamese Women's Day",    month |-> 10, day |-> 20],
    [name |-> "Christmas",                 month |-> 12, day |-> 25] >>

\* the lookahead passed by both orchestrators
MaxDays == 7

\* String.prototype.toLowerCase over the characters the model uses
LowerChar(c) ==
    CASE c = "A" -> "a"
      [] c = "B" -> "b"
      [] c = "X" -> "x"
      [] c = "Y" -> "y"
      [] OTHER -> c

toLowerCase(s) == [k \in DOMAIN s |-> LowerChar(s[k])]

\* JavaScript truthiness of an optional string field: absent and '' are falsy
Truthy(p, f) == IF f \in DOMAIN p THEN p[f] # <<>> ELSE FALSE

\* faulty variant: the threshold day itself is left out
WithinThreshold_Strict(d, maxDays) == d < maxDays

\* d <= maxDays
WithinThreshold(d, maxDays) == d <= maxDays

\* for (const g of GLOBAL_DATES) ...
RECURSIVE PushGlobals(_, _, _)
PushGlobals(acc, k, maxDays) ==
    IF k > Len(GLOBAL_DATES) THEN acc
    ELSE LET g == GLOBAL_DATES[k]
             d == daysUntilFixed(g.month, g.day)
         IN  PushGlobals(IF WithinThreshold(d, maxDays)
                           THEN Append(acc, [label |-> <<g.name>>, days |-> d])
                           ELSE acc,
                         k + 1, maxDays)

\* const all = []; the birthday, the anniversary, then the custom entries
DatedEntries(p) ==
    (IF Truthy(p, "birthday")
       THEN <<[label |-> <<p.name, "'s Birthday">>, val |-> p.birthday]>>
       ELSE <<>>)
    \o (IF Truthy(p, "anniversary")
          THEN <<[label |-> <<p.name, "'s Anniversary">>, val |-> p.anniversary]>>
          ELSE <<>>)
    \o (IF "custom" \in DOMAIN p
          THEN [k \in 1..Len(p.custom) |->
                  [label |-> <<p.custom[k].label, " (", p.name, ")">>,
                   val |-> p.custom[k].date]]
          ELSE <<>>)

\* for (const dt of all) ...
RECURSIVE PushDated(_, _, _, _)
PushDated(acc, all, k, maxDays) ==
    IF k > Len(all) THEN acc
    ELSE LET d == daysUntil(all[k].val)
         IN  PushDated(IF WithinThreshold(d, maxDays)
                         THEN Append(acc, [label |-> all[k].label, days |-> d])
                         ELSE acc,
                       all, k + 1, maxDays)

\* faulty variant: an empty ownerEmail counts as an owner
Skipped_EmptyOwner(p, subscriberEmail) ==
    IF "ownerEmail" \in DOMAIN p
      THEN toLowerCase(p.ownerEmail) # toLowerCase(subscriberEmail)
      ELSE FALSE

\* the condition of the continue in buildAlertsForSubscriber
Skipped(p, subscriberEmail) ==
    Truthy(p, "ownerEmail")
    /\ toLowerCase(p.ownerEmail) # toLowerCase(subscriberEmail)

\* for (const p of people) ... of buildAlertsForSubscriber
RECURSIVE PushOwned(_, _, _, _, _)
PushOwned(acc, ps, k, subscriberEmail, maxDays) ==
    IF k > Len(ps) THEN acc
    ELSE PushOwned(IF Skipped(ps[k], subscriberEmail)
                     THEN acc
                     ELSE PushDated(acc, DatedEntries(ps[k]), 1, maxDays),
                   ps, k + 1, subscriberEmail, maxDays)

\* for (const p of people) ... of buildAlerts
RECURSIVE PushAll(_, _, _, _)
PushAll(acc, ps, k, maxDays) ==
    IF k > Len(ps) THEN acc
    ELSE PushAll(PushDated(acc, DatedEntries(ps[k]), 1, maxDays), ps, k + 1, maxDays)

\* (a, b) => a.days - b.days
Compare(a, b) == a.days - b.days

\* faulty variant: an element is put before the equal ones already placed
InsertAlert_Unstable(s, x) ==
    LET before == {j \in 1..Len(s) : Compare(s[j], x) < 0}
        n == Cardinality(before)
    IN  SubSeq(s, 1, n) \o <<x>> \o SubSeq(s, n + 1, Len(s))

\* One step of the stable sort: x goes behind every element that does not
\* compare greater than it.  s is sorted, so these are a prefix of s.
InsertAlert(s, x) ==
    LET before == {j \in 1..Len(s) : Compare(s[j], x) <= 0}
        n == Cardinality(before)
    IN  SubSeq(s, 1, n) \o <<x>> \o SubSeq(s, n + 1, Len(s))

\* Array.prototype.sort with the comparator above (stable)
RECURSIVE SortAlerts(_, _, _)
SortAlerts(acc, s, k) ==
    IF k > Len(s) THEN acc ELSE SortAlerts(InsertAlert(acc, s[k]), s, k + 1)

\* the alerts array of buildAlertsForSubscriber just before the sort
PushedForSubscriber(ps, subscriberEmail, maxDays) ==
    PushOwned(PushGlobals(<<>>, 1, maxDays), ps, 1, subscriberEmail, maxDays)

buildAlertsForSubscriber(ps, subscriberEmail, maxDays) ==
    SortAlerts(<<>>, PushedForSubscriber(ps, subscriberEmail, maxDays), 1)

\* the alerts array of buildAlerts just before the sort
PushedForAll(ps, maxDays) == PushAll(PushGlobals(<<>>, 1, maxDays), ps, 1, maxDays)

buildAlerts(ps, maxDays) == SortAlerts(<<>>, PushedForAll(ps, maxDays), 1)

\* The text is the sequence of its lines (join('\n'), split('\n')); '' has
\* no line.
Urgency(days) ==
    IF days = 0 THEN <<"TODAY">>
    ELSE IF days <= 3 THEN <<"In ", days, " day(s)">>
    ELSE <<"In ", days, " days">>

formatAlertText(as) ==
    IF Len(as) = 0 THEN <<>>
    ELSE [k \in 1..Len(as) |-> [w |-> Urgency(as[k].days), label |-> as[k].label]]

----------------------------------------------------------------------------
\* The documents the store can hold

EmailA == <<"a", "@", "x">>
EmailAUpper == <<"A", "@", "X">>
EmailB == <<"b", "@", "y">>
EmailBUpper == <<"B", "@", "Y">>

Absent == [exists |-> FALSE]

CfgDocs ==
    { Absent,
      [exists |-> TRUE, serviceId |-> "svc", templateId |-> "tpl", pubKey |-> "key"],
      [exists |-> TRUE, templateId |-> "tpl", pubKey |-> "key", sender |-> "Quinn"],
      [exists |-> TRUE, serviceId |-> "svc", templateId |-> "", pubKey |-> "key"],
      [exists |-> TRUE, serviceId |-> "svc", templateId |-> "tpl"] }

\* !cfg.f
Missing(cfg, f) == IF f \in DOMAIN cfg THEN cfg[f] = "" ELSE TRUE

\* Person documents without their name.  Each person of a collection gets
\* a name of its own (PersonName), so that a label tells whose date it is.
PersonDocs ==
    { [ownerEmail |-> EmailA, birthday |-> <<12, 25>>],
      [birthday |-> <<1990, 12, 22>>, anniversary |-> <<1, 2>>],
      [ownerEmail |-> <<>>, birthday |-> <<>>, anniversary |-> <<2, 14>>,
       custom |-> << [label |-> "Trip", date |-> <<2, 29>>],
                     [label |-> "Gift", date |-> <<12, 25>>] >>],
      [ownerEmail |-> EmailBUpper, anniversary |-> <<3, 15>>,
       custom |-> << [label |-> "Trip", date |-> <<2021, 12, 27>>] >>] }

PersonName(k) ==
    CASE k = 1 -> "Ann" [] k = 2 -> "Bea" [] k = 3 -> "Cat" [] OTHER -> "Dee"

Named(doc, k) == [f \in DOMAIN doc \cup {"name"} |->
                    IF f = "name" THEN PersonName(k) ELSE doc[f]]

SeqsUpTo(S, n) == UNION {[1..k -> S] : k \in 0..n}

\* the documents of a collection are distinct
Distinct(ps) == \A i, j \in DOMAIN ps : i # j => ps[i] # ps[j]

WivesCollections ==
    { [k \in DOMAIN ps |-> Named(ps[k], k)] :
        ps \in {qs \in SeqsUpTo(PersonDocs, MaxPeople) : Distinct(qs)} }

SubscriberDocs ==
    { [name |-> "Al", email |-> EmailAUpper], [name |-> "Bo", email |-> EmailB] }

SubscriberCollections == SeqsUpTo(SubscriberDocs, MaxSubs)

\* The days a run is started on, with the zone of its host
RunDays ==
    { [y |-> FirstYear,     m |-> 12, d |-> 20, tz |-> "UTC"],
      [y |-> FirstYear,     m |-> 12, d |-> 28, tz |-> "DST"],
      [y |-> FirstYear,     m |-> 2,  d |-> 14, tz |-> "UTC"],
      [y |-> FirstYear,     m |-> 3,  d |-> 10, tz |-> "DST"],
      [y |-> FirstYear,     m |-> 7,  d |-> 1,  tz |-> "DST"],
      [y |-> FirstYear + 1, m |-> 2,  d |-> 25, tz |-> "UTC"] }

NoProbe == [fn |-> "none", args |-> <<>>, result |-> 0]

InitStore ==
    /\ \E r \in RunDays : today = [y |-> r.y, m |-> r.m, d |-> r.d] /\ tz = r.tz
    /\ cfgDoc \in CfgDocs
    /\ wivesDocs \in WivesCollections
    /\ subsDocs \in SubscriberCollections

InitLocals ==
    /\ people = <<>>
    /\ subscribers = <<>>
    /\ idx = 0
    /\ alerts = <<>>
    /\ alertText = <<>>
    /\ ok = 0
    /\ fail = 0
    /\ skipped = 0
    /\ calls = <<>>
    /\ clock = 0
    /\ exitCode = 0
    /\ fatal = FALSE
    /\ probe = NoProbe

----------------------------------------------------------------------------
\* main, per-subscriber variant (lines 277-336)

Init == InitStore /\ InitLocals /\ pc = "config"

store == <<today, tz, cfgDoc, wivesDocs, subsDocs, probe>>

\* The 1.1 s of the pacing timer, in ms
PacingDelay == 1100

\* main().catch(e => { ...; process.exit(1) }): a read of the store rejects
Fatal ==
    /\ pc \in {"config", "wives", "subs"}
    /\ pc' = "done"
    /\ exitCode' = 1
    /\ fatal' = TRUE
    /\ UNCHANGED <<store, people, subscribers, idx, alerts, alertText, ok, fail,
                   skipped, calls, clock>>

\* faulty variant: only the presence of the document is checked
ReadConfig_IgnoreIncomplete ==
    /\ pc = "config"
    /\ \/ /\ ~cfgDoc.exists
          /\ pc' = "done"
       \/ /\ cfgDoc.exists
          /\ pc' = "wives"
    /\ UNCHANGED <<store, people, subscribers, idx, alerts, alertText, ok, fail,
                   skipped, calls, clock, exitCode, fatal>>

ReadConfig ==
    /\ pc = "config"
    /\ \/ /\ ~cfgDoc.exists
          /\ pc' = "done"
       \/ /\ cfgDoc.exists
          /\ Missing(cfgDoc, "serviceId") \/ Missing(cfgDoc, "templateId")
                \/ Missing(cfgDoc, "pubKey")
          /\ pc' = "done"
       \/ /\ cfgDoc.exists
          /\ ~Missing(cfgDoc, "serviceId")
          /\ ~Missing(cfgDoc, "templateId")
          /\ ~Missing(cfgDoc, "pubKey")
          /\ pc' = "wives"
    /\ UNCHANGED <<store, people, subscribers, idx, alerts, alertText, ok, fail,
                   skipped, calls, clock, exitCode, fatal>>

ReadWives ==
    /\ pc = "wives"
    /\ people' = wivesDocs
    /\ pc' = "subs"
    /\ UNCHANGED <<store, subscribers, idx, alerts, alertText, ok, fail, skipped,
                   calls, clock, exitCode, fatal>>

ReadSubscribers ==
    /\ pc = "subs"
    /\ subscribers' = subsDocs
    /\ \/ /\ Len(subsDocs) = 0
          /\ pc' = "done"
          /\ UNCHANGED idx
       \/ /\ Len(subsDocs) # 0
          /\ pc' = "loop"
          /\ idx' = 1
    /\ UNCHANGED <<store, people, alerts, alertText, ok, fail, skipped, calls,
                   clock, exitCode, fatal>>

\* const alerts = buildAlertsForSubscriber(people, sub.email, 7)
Build ==
    /\ pc = "loop"
    /\ idx <= Len(subscribers)
    /\ alerts' = buildAlertsForSubscriber(people, subscribers[idx].email, MaxDays)
    /\ pc' = "built"
    /\ UNCHANGED <<store, people, subscribers, idx, alertText, ok, fail, skipped,
                   calls, clock, exitCode, fatal>>

\* faulty variant: a skipped subscriber is not counted
Skip_NotCounted ==
    /\ pc = "built"
    /\ Len(alerts) = 0
    /\ idx' = idx + 1
    /\ pc' = "loop"
    /\ UNCHANGED <<store, people, subscribers, alerts, alertText, ok, fail, skipped,
                   calls, clock, exitCode, fatal>>

\* if (alerts.length === 0) { skipped++; continue; }
Skip ==
    /\ pc = "built"
    /\ Len(alerts) = 0
    /\ skipped' = skipped + 1
    /\ idx' = idx + 1
    /\ pc' = "loop"
    /\ UNCHANGED <<store, people, subscribers, alerts, alertText, ok, fail, calls,
                   clock, exitCode, fatal>>

\* const alertText = formatAlertText(alerts)
Format ==
    /\ pc = "built"
    /\ Len(alerts) # 0
    /\ alertText' = formatAlertText(alerts)
    /\ pc' = "send"
    /\ UNCHANGED <<store, people, subscribers, idx, alerts, ok, fail, skipped,
                   calls, clock, exitCode, fatal>>

\* the POST of sendEmailViaREST, as the provider sees it
Post(k, toEmail, eventListText, cfg, accepted) ==
    [sub |-> k,
     to_email |-> toEmail,
     from_name |-> IF Missing(cfg, "sender") THEN "Date Reminder" ELSE cfg.sender,
     event_list |-> eventListText,
     at |-> clock,
     accepted |-> accepted]

\* await sendEmailViaREST(...) resolves; ok++
SendOk ==
    /\ pc = "send"
    /\ calls' = Append(calls, Post(idx, subscribers[idx].email, alertText, cfgDoc, TRUE))
    /\ ok' = ok + 1
    /\ pc' = "delay"
    /\ UNCHANGED <<store, people, subscribers, idx, alerts, alertText, fail,
                   skipped, clock, exitCode, fatal>>

\* faulty variant: a failed send ends the run
SendFailed_Abort ==
    /\ pc = "send"
    /\ calls' = Append(calls, Post(idx, subscribers[idx].email, alertText, cfgDoc, FALSE))
    /\ fail' = fail + 1
    /\ exitCode' = 1
    /\ pc' = "done"
    /\ UNCHANGED <<store, people, subscribers, idx, alerts, alertText, ok, skipped,
                   clock, fatal>>

\* await sendEmailViaREST(...) rejects (a response that is not ok, or no
\* response); catch (e) { fail++ }
SendFailed ==
    /\ pc = "send"
    /\ calls' = Append(calls, Post(idx, subscribers[idx].email, alertText, cfgDoc, FALSE))
    /\ fail' = fail + 1
    /\ idx' = idx + 1
    /\ pc' = "loop"
    /\ UNCHANGED <<store, people, subscribers, alerts, alertText, ok, skipped,
                   clock, exitCode, fatal>>

\* await new Promise(r => setTimeout(r, 1100))
Delay ==
    /\ pc = "delay"
    /\ clock' = clock + PacingDelay
    /\ idx' = idx + 1
    /\ pc' = "loop"
    /\ UNCHANGED <<store, people, subscribers, alerts, alertText, ok, fail,
                   skipped, calls, exitCode, fatal>>

\* faulty variant: the exit status ignores the failures
Finish_AlwaysZero ==
    /\ pc = "loop"
    /\ idx > Len(subscribers)
    /\ exitCode' = 0
    /\ pc' = "done"
    /\ UNCHANGED <<store, people, subscribers, idx, alerts, alertText, ok, fail,
                   skipped, calls, clock, fatal>>

\* if (fail > 0) process.exit(1)
Finish ==
    /\ pc = "loop"
    /\ idx > Len(subscribers)
    /\ exitCode' = IF fail > 0 THEN 1 ELSE 0
    /\ pc' = "done"
    /\ UNCHANGED <<store, people, subscribers, idx, alerts, alertText, ok, fail,
                   skipped, calls, clock, fatal>>

Next ==
    \/ Fatal
    \/ ReadConfig
    \/ ReadWives
    \/ ReadSubscribers
    \/ Build
    \/ Skip
    \/ Format
    \/ SendOk
    \/ SendFailed
    \/ Delay
    \/ Finish

Spec == Init /\ [][Next]_vars

----------------------------------------------------------------------------
\* main, broadcast variant (lines 105-167)

InitBroadcast == InitStore /\ InitLocals /\ pc = "bconfig"

BFatal ==
    /\ pc \in {"bconfig", "bwives", "bsubs"}
    /\ pc' = "done"
    /\ exitCode' = 1
    /\ fatal' = TRUE
    /\ UNCHANGED <<store, people, subscribers, idx, alerts, alertText, ok, fail,
                   skipped, calls, clock>>

BReadConfig ==
    /\ pc = "bconfig"
    /\ \/ /\ ~cfgDoc.exists
          /\ pc' = "done"
       \/ /\ cfgDoc.exists
          /\ Missing(cfgDoc, "serviceId") \/ Missing(cfgDoc, "templateId")
                \/ Missing(cfgDoc, "pubKey")
          /\ pc' = "done"
       \/ /\ cfgDoc.exists
          /\ ~Missing(cfgDoc, "serviceId")
          /\ ~Missing(cfgDoc, "templateId")
          /\ ~Missing(cfgDoc, "pubKey")
          /\ pc' = "bwives"
    /\ UNCHANGED <<store, people, subscribers, idx, alerts, alertText, ok, fail,
                   skipped, calls, clock, exitCode, fatal>>

\* the wives are read, then alerts = buildAlerts(people, 7) and alertText
BReadWives ==
    /\ pc = "bwives"
    /\ people' = wivesDocs
    /\ alerts' = buildAlerts(wivesDocs, MaxDays)
    /\ \/ /\ Len(alerts') = 0
          /\ pc' = "done"
          /\ UNCHANGED alertText
       \/ /\ Len(alerts') # 0
          /\ alertText' = formatAlertText(alerts')
          /\ pc' = "bsubs"
    /\ UNCHANGED <<store, subscribers, idx, ok, fail, skipped, calls, clock,
                   exitCode, fatal>>

BReadSubscribers ==
    /\ pc = "bsubs"
    /\ subscribers' = subsDocs
    /\ \/ /\ Len(subsDocs) = 0
          /\ pc' = "done"
          /\ UNCHANGED idx
       \/ /\ Len(subsDocs) # 0
          /\ pc' = "bsend"
          /\ idx' = 1
    /\ UNCHANGED <<store, people, alerts, alertText, ok, fail, skipped, calls,
                   clock, exitCode, fatal>>

BSendOk ==
    /\ pc = "bsend"
    /\ idx <= Len(subscribers)
    /\ calls' = Append(calls, Post(idx, subscribers[idx].email, alertText, cfgDoc, TRUE))
    /\ ok' = ok + 1
    /\ pc' = "bdelay"
    /\ UNCHANGED <<store, people, subscribers, idx, alerts, alertText, fail,
                   skipped, clock, exitCode, fatal>>

BSendFailed ==
    /\ pc = "bsend"
    /\ idx <= Len(subscribers)
    /\ calls' = Append(calls, Post(idx, subscribers[idx].email, alertText, cfgDoc, FALSE))
    /\ fail' = fail + 1
    /\ idx' = idx + 1
    /\ UNCHANGED <<store, pc, people, subscribers, alerts, alertText, ok, skipped,
                   clock, exitCode, fatal>>

BDelay ==
    /\ pc = "bdelay"
    /\ clock' = clock + PacingDelay
    /\ idx' = idx + 1
    /\ pc' = "bsend"
    /\ UNCHANGED <<store, people, subscribers, alerts, alertText, ok, fail,
                   skipped, calls, exitCode, fatal>>

BFinish ==
    /\ pc = "bsend"
    /\ idx > Len(subscribers)
    /\ exitCode' = IF fail > 0 THEN 1 ELSE 0
    /\ pc' = "done"
    /\ UNCHANGED <<store, people, subscribers, idx, alerts, alertText, ok, fail,
                   skipped, calls, clock, fatal>>

NextBroadcast ==
    \/ BFatal
    \/ BReadConfig
    \/ BReadWives
    \/ BReadSubscribers
    \/ BSendOk
    \/ BSendFailed
    \/ BDelay
    \/ BFinish

SpecBroadcast == InitBroadcast /\ [][NextBroadcast]_vars

----------------------------------------------------------------------------
\* The date helpers called on their own, on any day of the years covered

AllDays ==
    { t \in [y : FirstYear..(FirstYear + NumYears - 1), m : 1..12, d : 1..31] :
        t.d <= MonthLen(t.y, t.m) }

\* date strings as daysUntil splits them: MM-DD and YYYY-MM-DD
DateStrings ==
    { <<m, d>> : m \in {1, 2, 12}, d \in {1, 29} }
    \cup { <<1990, m, d>> : m \in {1, 2, 12}, d \in {1, 29} }

InitDate ==
    /\ today \in AllDays
    /\ tz \in {"UTC", "DST"}
    /\ cfgDoc = Absent
    /\ wivesDocs = <<>>
    /\ subsDocs = <<>>
    /\ InitLocals
    /\ pc = "date"

CallDaysUntilFixed ==
    /\ pc = "date"
    /\ pc' = "called"
    /\ \E month \in 1..12, day \in 1..31 :
          probe' = [fn |-> "daysUntilFixed", args |-> <<month, day>>,
                    result |-> daysUntilFixed(month, day)]
    /\ UNCHANGED <<today, tz, cfgDoc, wivesDocs, subsDocs, people, subscribers,
                   idx, alerts, alertText, ok, fail, skipped, calls, clock,
                   exitCode, fatal>>

CallDaysUntil ==
    /\ pc = "date"
    /\ pc' = "called"
    /\ \E parts \in DateStrings :
          probe' = [fn |-> "daysUntil", args |-> parts, result |-> daysUntil(parts)]
    /\ UNCHANGED <<today, tz, cfgDoc, wivesDocs, subsDocs, people, subscribers,
                   idx, alerts, alertText, ok, fail, skipped, calls, clock,
                   exitCode, fatal>>

NextDate == CallDaysUntilFixed \/ CallDaysUntil

SpecDate == InitDate /\ [][NextDate]_vars

----------------------------------------------------------------------------
\* Properties

\* the subscriber loop has decided the outcome of subscriber k
Processed(k) == (k < idx) \/ (k = idx /\ pc = "delay")

AttemptsOf(k) == Cardinality({j \in DOMAIN calls : calls[j].sub = k})

HasAlerts(k) ==
    Len(buildAlertsForSubscriber(people, subscribers[k].email, MaxDays)) > 0

LoopComplete == pc = "done" /\ idx > 0

Rejected == {j \in DOMAIN calls : ~calls[j].accepted}

Accepted == {j \in DOMAIN calls : calls[j].accepted}

\* C1: once the run is in the subscriber loop, every subscriber it has
\* dealt with got exactly one send attempt if its alert list is not empty
\* and none if it is empty, no other subscriber got any, and the loop is
\* only left after the last subscriber, whatever sends failed.
C1_FailureIsolation ==
    /\ \A k \in 1..Len(subscribers) :
          AttemptsOf(k) = IF Processed(k) /\ HasAlerts(k) THEN 1 ELSE 0
    /\ LoopComplete => idx = Len(subscribers) + 1

C1_Witness ==
    /\ LoopComplete
    /\ Len(subscribers) = 3
    /\ Len(calls) = 2
    /\ ~calls[1].accepted
    /\ calls[1].sub = 1
    /\ calls[2].accepted
    /\ calls[2].sub = 3

\* C2: a run that has ended has exit code 1 exactly if a send was rejected
\* or an error reached the catch handler of main, and exit code 0 otherwise.
C2_ExitStatus ==
    pc = "done" =>
        /\ exitCode \in {0, 1}
        /\ (exitCode = 1) <=> (Rejected # {} \/ fatal)

C2_Witness ==
    /\ pc = "done"
    /\ exitCode = 1
    /\ ~fatal
    /\ Accepted # {}
    /\ skipped > 0

\* C4: between two successive send attempts the pacing delay elapses.
C4_Pacing ==
    \A j \in 1..(Len(calls) - 1) : calls[j + 1].at - calls[j].at >= PacingDelay

\* the person has no owner: ownerEmail is absent or empty
Legacy(p) == IF "ownerEmail" \in DOMAIN p THEN p.ownerEmail = <<>> ELSE TRUE

\* the dates of a person, each with the label of its alert
DatesOf(p) ==
    (IF "birthday" \in DOMAIN p
       THEN {[label |-> <<p.name, "'s Birthday">>, val |-> p.birthday]} ELSE {})
    \cup (IF "anniversary" \in DOMAIN p
            THEN {[label |-> <<p.name, "'s Anniversary">>, val |-> p.anniversary]}
            ELSE {})
    \cup (IF "custom" \in DOMAIN p
            THEN {[label |-> <<p.custom[k].label, " (", p.name, ")">>,
                   val |-> p.custom[k].date] : k \in DOMAIN p.custom}
            ELSE {})

ValidDatesOf(p) == {e \in DatesOf(p) : Len(e.val) \in {2, 3}}

Listed(as, label, days) == \E j \in DOMAIN as : as[j] = [label |-> label, days |-> days]

\* C5: the alert list built for any subscriber holds every date within the
\* threshold of every person whose ownerEmail is absent or empty.
C5_LegacyVisibility ==
    pc = "built" =>
        \A k \in DOMAIN people :
            Legacy(people[k]) =>
                \A e \in ValidDatesOf(people[k]) :
                    daysUntil(e.val) <= MaxDays =>
                        Listed(alerts, e.label, daysUntil(e.val))

C5_Witness ==
    /\ pc = "built"
    /\ \E k \in DOMAIN people :
          /\ "ownerEmail" \in DOMAIN people[k]
          /\ people[k].ownerEmail = <<>>
          /\ \E e \in ValidDatesOf(people[k]) : Listed(alerts, e.label, 5)
    /\ \E k \in DOMAIN people :
          /\ "ownerEmail" \notin DOMAIN people[k]
          /\ \E e \in ValidDatesOf(people[k]) : Listed(alerts, e.label, 2)

IsGlobal(a) == \E g \in DOMAIN GLOBAL_DATES : a.label = <<GLOBAL_DATES[g].name>>

\* the alerts of s with the given days, in the order of s, for lo..hi in turn
RECURSIVE ByDays(_, _, _)
ByDays(s, lo, hi) ==
    IF lo > hi THEN <<>>
    ELSE SelectSeq(s, LAMBDA a : a.days = lo) \o ByDays(s, lo + 1, hi)

\* C6: the alert list is the stable sort by days of the sequence of pushes
\* (the global dates first): days never decreases along it, alerts of equal
\* days keep the order they were pushed in, a global date before personal ones.
C6_SortedStable ==
    pc = "built" =>
        LET pushed == PushedForSubscriber(people, subscribers[idx].email, MaxDays)
        IN  /\ \A j \in 1..(Len(alerts) - 1) : alerts[j].days <= alerts[j + 1].days
            /\ alerts = ByDays(pushed, 0, MaxDays)
            /\ \A i, j \in DOMAIN pushed :
                  (i < j /\ IsGlobal(pushed[j])) => IsGlobal(pushed[i])
            /\ \A i, j \in DOMAIN alerts :
                  (i < j /\ alerts[i].days = alerts[j].days /\ IsGlobal(alerts[j]))
                      => IsGlobal(alerts[i])

C6_Witness ==
    /\ pc = "built"
    /\ alerts # PushedForSubscriber(people, subscribers[idx].email, MaxDays)
    /\ \E i, j \in DOMAIN alerts :
          /\ i < j
          /\ alerts[i].days = alerts[j].days
          /\ IsGlobal(alerts[i])
          /\ ~IsGlobal(alerts[j])

\* the person is visible to the subscriber
VisibleTo(p, email) == Legacy(p) \/ toLowerCase(p.ownerEmail) = toLowerCase(email)

\* C7: a global date, or a valid date of a person visible to the subscriber,
\* is in the alert list exactly if its days-until is at most the threshold,
\* and every alert of the list has days in 0..threshold.
C7_Threshold ==
    pc = "built" =>
        /\ \A g \in DOMAIN GLOBAL_DATES :
              LET d == daysUntilFixed(GLOBAL_DATES[g].month, GLOBAL_DATES[g].day)
              IN  Listed(alerts, <<GLOBAL_DATES[g].name>>, d) <=> (d <= MaxDays)
        /\ \A k \in DOMAIN people :
              VisibleTo(people[k], subscribers[idx].email) =>
                  \A e \in ValidDatesOf(people[k]) :
                      Listed(alerts, e.label, daysUntil(e.val))
                          <=> (daysUntil(e.val) <= MaxDays)
        /\ \A j \in DOMAIN alerts : alerts[j].days \in 0..MaxDays

C7_Witness ==
    /\ pc = "built"
    /\ \E j \in DOMAIN alerts : alerts[j].days = MaxDays /\ ~IsGlobal(alerts[j])
    /\ \E k \in DOMAIN people :
          /\ VisibleTo(people[k], subscribers[idx].email)
          /\ \E e \in ValidDatesOf(people[k]) : daysUntil(e.val) > MaxDays

NothingToSend ==
    \/ ~cfgDoc.exists
    \/ Missing(cfgDoc, "serviceId")
    \/ Missing(cfgDoc, "templateId")
    \/ Missing(cfgDoc, "pubKey")
    \/ Len(subsDocs) = 0

InLoop == pc \in {"loop", "built", "send", "delay"} \/ LoopComplete

\* C10: in the subscriber loop ok + fail + skipped is the number of
\* subscribers dealt with, each counted once: ok counts the accepted sends,
\* fail the rejected ones, skipped the subscribers dealt with without a send
\* attempt; after the loop the sum is the number of subscribers.
C10_CounterConservation ==
    InLoop =>
        LET done == {k \in 1..Len(subscribers) : Processed(k)}
        IN  /\ ok + fail + skipped = Cardinality(done)
            /\ ok = Cardinality(Accepted)
            /\ fail = Cardinality(Rejected)
            /\ skipped = Cardinality({k \in done : AttemptsOf(k) = 0})
            /\ \A k \in done : AttemptsOf(k) <= 1
            /\ LoopComplete => ok + fail + skipped = Len(subscribers)

C10_Witness ==
    /\ LoopComplete
    /\ ok > 0
    /\ fail > 0
    /\ skipped > 0

LabelNames(p, label) == \E k \in DOMAIN label : label[k] = p.name

OwnedByAnother(p, email) ==
    ~Legacy(p) /\ toLowerCase(p.ownerEmail) # toLowerCase(email)

\* C3: no date of a person whose non-empty ownerEmail differs, letter case
\* ignored, from a subscriber's email is in the alerts built for that
\* subscriber or in an email sent to it.
C3_OwnershipScoping ==
    /\ pc = "built" =>
          \A k \in DOMAIN people, j \in DOMAIN alerts :
              OwnedByAnother(people[k], subscribers[idx].email)
                  => ~LabelNames(people[k], alerts[j].label)
    /\ \A c \in DOMAIN calls, k \in DOMAIN people :
          OwnedByAnother(people[k], calls[c].to_email) =>
              \A l \in DOMAIN calls[c].event_list :
                  ~LabelNames(people[k], calls[c].event_list[l].label)

\* an owned person's date reached its owner, whose email is spelt in
\* another letter case
C3_OwnerReached ==
    \E c \in DOMAIN calls, k \in DOMAIN people :
        /\ ~Legacy(people[k])
        /\ people[k].ownerEmail # calls[c].to_email
        /\ \E l \in DOMAIN calls[c].event_list :
              LabelNames(people[k], calls[c].event_list[l].label)

\* C9: daysUntilFixed returns a non-negative integer, and 0 for the month
\* and day of today.
C9_DaysUntilFixed ==
    probe.fn = "daysUntilFixed" =>
        /\ probe.result \in Nat
        /\ probe.args = <<today.m, today.d>> => probe.result = 0

C9_Witness ==
    /\ probe.fn = "daysUntilFixed"
    /\ probe.args = <<today.m, today.d>>
    /\ probe.result = 0
    /\ today.m = 2
    /\ today.d = 29

\* daysUntil gives a legacy YYYY-MM-DD string the value of its MM-DD part
DaysUntilIgnoresYear ==
    (probe.fn = "daysUntil" /\ Len(probe.args) = 3) =>
        probe.result = daysUntil(Tail(probe.args))

====
